---------------------------- MODULE Spec2Model ----------------------------
(***************************************************************************)
(* GeoRefApp (src/georefimg.py): georeferencing of a raster image from     *)
(* control points and digitizing of polygons on it.                        *)
(*                                                                         *)
(* The state is the fields of GeoRefApp set in __init__, the state of the  *)
(* four buttons whose state (NORMAL / DISABLED) the handlers change, the   *)
(* number of _finish_polygon callbacks scheduled with root.after, and what *)
(* the last handler wrote to disk.  shapefile tells whether pyshp was      *)
(* imported (lines 50-53).  One action per handler; the answers given in   *)
(* the dialogs a handler opens are inputs of its action.                   *)
(*                                                                         *)
(* Three history variables record what the program does not keep:         *)
(* assigned_ids, the ids given to polygons since the image was loaded,     *)
(* group_transforms, the transform held when each ring of the group in     *)
(* progress was closed, and op, the handler that ran last (recorded for    *)
(* the handlers a specification is about, "" otherwise).                   *)
(*                                                                         *)
(* Eight specifications run the handlers from the state after              *)
(* construction: SpecPoints (control points), SpecRing (drawing and        *)
(* committing rings), SpecPolys (committing, deleting and exporting        *)
(* polygons), SpecEdit (editing the georeference while digitizing),        *)
(* SpecFiles (the world file and the export, with or without pyshp),       *)
(* SpecImport (CSV import of world coordinates), SpecFit (the fit and its  *)
(* inverse) and SpecSession (reloading, repeated finish presses, pan).     *)
(*                                                                         *)
(* Numbers.  Python floats are modelled as exact rationals <<n, d>> in     *)
(* lowest terms with d > 0; float('nan') is <<0, 0>>.  Pixel coordinates   *)
(* of clicks and the world coordinates typed by the operator are integers  *)
(* drawn from small sets.  An Optional value is the empty sequence (None)  *)
(* or a non-empty one.                                                     *)
(*                                                                         *)
(* The optional dependency shapely is taken as not installed (the          *)
(* ImportError branch of lines 55-62), so the cleanup of lines 636-650 is  *)
(* skipped; imageio is installed and reads the chosen file.                *)
(***************************************************************************)
EXTENDS Integers, Sequences, FiniteSets, TLC

None == <<>>
NaN == <<0, 0>>

VARIABLES image_path, control_points, transform, stage, drawing, mode_var,
          rect_start, current_poly_pixels, current_group_pixels,
          current_group_name, polygons, next_poly_id, pan_mode,
          ignore_next_click, btn_to_polys, btn_new_poly, btn_finish_poly,
          btn_undo_poly, pending, written, shapefile, assigned_ids,
          group_transforms, op

vars == <<image_path, control_points, transform, stage, drawing, mode_var,
          rect_start, current_poly_pixels, current_group_pixels,
          current_group_name, polygons, next_poly_id, pan_mode,
          ignore_next_click, btn_to_polys, btn_new_poly, btn_finish_poly,
          btn_undo_poly, pending, written, shapefile, assigned_ids,
          group_transforms, op>>

(***************************************************************************)
(* Rational arithmetic (Python float arithmetic, taken as exact).          *)
(***************************************************************************)
Abs(a) == IF a < 0 THEN -a ELSE a

RECURSIVE Gcd(_, _)
Gcd(a, b) == IF b = 0 THEN a ELSE Gcd(b, a % b)

\* n / d in lowest terms, d # 0
Rat(n, d) ==
    LET g == Gcd(Abs(n), Abs(d))
        s == IF d < 0 THEN -1 ELSE 1
    IN  <<(s * n) \div g, (s * d) \div g>>

RInt(a) == <<a, 1>>
RAdd(p, q) == Rat(p[1] * q[2] + q[1] * p[2], p[2] * q[2])
RMul(p, q) == Rat(p[1] * q[1], p[2] * q[2])

(***************************************************************************)
(* ControlPoint                                                            *)
(***************************************************************************)
ControlPoint(c, r) == [col |-> c, row |-> r, x |-> None, y |-> None]

is_complete(cp) == cp.x # None /\ cp.y # None

Complete(cps) == SelectSeq(cps, is_complete)

(***************************************************************************)
(* np.linalg.lstsq(G, v, rcond=None)[0] for G with rows [1, col, row]:     *)
(* the least-squares solution of minimum norm.  With N = G^T G, b = G^T v  *)
(* and W a basis of the null space of G, it is the solution p of           *)
(* (N + sum of w w^T over W) p = b, solved by Cramer's rule.               *)
(***************************************************************************)
Det3(m) ==
      m[1][1] * (m[2][2] * m[3][3] - m[2][3] * m[3][2])
    - m[1][2] * (m[2][1] * m[3][3] - m[2][3] * m[3][1])
    + m[1][3] * (m[2][1] * m[3][2] - m[2][2] * m[3][1])

Cross(u, v) == << u[2] * v[3] - u[3] * v[2],
                  u[3] * v[1] - u[1] * v[3],
                  u[1] * v[2] - u[2] * v[1] >>

RECURSIVE SumSeq(_)
SumSeq(s) == IF s = <<>> THEN 0 ELSE Head(s) + SumSeq(Tail(s))

NullBasis(G) ==
    LET n == Len(G)
        N == [i \in 1..3 |-> [j \in 1..3 |-> SumSeq([k \in 1..n |-> G[k][i] * G[k][j]])]]
        pairs == {pr \in (1..n) \X (1..n) : Cross(G[pr[1]], G[pr[2]]) # <<0, 0, 0>>}
    IN  IF Det3(N) # 0 THEN <<>>
        ELSE IF pairs # {}
             THEN LET pr == CHOOSE q \in pairs : TRUE
                  IN  << Cross(G[pr[1]], G[pr[2]]) >>
             ELSE << <<G[1][2], -1, 0>>, <<G[1][3], 0, -1>> >>

lstsq(G, v) ==
    LET n == Len(G)
        W == NullBasis(G)
        M == [i \in 1..3 |-> [j \in 1..3 |->
                 SumSeq([k \in 1..n |-> G[k][i] * G[k][j]])
               + SumSeq([k \in 1..Len(W) |-> W[k][i] * W[k][j]])]]
        b == [i \in 1..3 |-> SumSeq([k \in 1..n |-> G[k][i] * v[k]])]
        Col(j) == [i \in 1..3 |-> [k \in 1..3 |-> IF k = j THEN b[i] ELSE M[i][k]]]
        d == Det3(M)
    IN  [j \in 1..3 |-> Rat(Det3(Col(j)), d)]

\* A faulty variant of Fit: the parameters are stored as the solver returns
\* them, (C, A, B, F, D, E).
FitInSolverOrder(complete) ==
    LET G == [k \in 1..Len(complete) |-> <<1, complete[k].col, complete[k].row>>]
        xs == [k \in 1..Len(complete) |-> complete[k].x[1]]
        ys == [k \in 1..Len(complete) |-> complete[k].y[1]]
        p_x == lstsq(G, xs)
        p_y == lstsq(G, ys)
    IN  <<p_x[1], p_x[2], p_x[3], p_y[1], p_y[2], p_y[3]>>

\* The fit of compute_transform: (A, B, C, D, E, F) from the complete points.
Fit(complete) ==
    LET G == [k \in 1..Len(complete) |-> <<1, complete[k].col, complete[k].row>>]
        xs == [k \in 1..Len(complete) |-> complete[k].x[1]]
        ys == [k \in 1..Len(complete) |-> complete[k].y[1]]
        p_x == lstsq(G, xs)
        p_y == lstsq(G, ys)
    IN  <<p_x[2], p_x[3], p_x[1], p_y[2], p_y[3], p_y[1]>>

pixel_to_world(tf, px) ==
    IF tf = None THEN <<NaN, NaN>>
    ELSE << RAdd(tf[3], RAdd(RMul(tf[1], RInt(px[1])), RMul(tf[2], RInt(px[2])))),
            RAdd(tf[6], RAdd(RMul(tf[4], RInt(px[1])), RMul(tf[5], RInt(px[2])))) >>

RNeg(p) == <<-p[1], p[2]>>
RDiv(p, q) == Rat(p[1] * q[2], p[2] * q[1])

\* Lines 968-980: np.linalg.solve raises LinAlgError on a singular matrix.
world_to_pixel(tf, xy) ==
    IF tf = None THEN <<NaN, NaN>>
    ELSE LET det == RAdd(RMul(tf[1], tf[5]), RNeg(RMul(tf[2], tf[4])))
             vx == RAdd(RInt(xy[1]), RNeg(tf[3]))
             vy == RAdd(RInt(xy[2]), RNeg(tf[6]))
         IN  IF det[1] = 0 THEN <<NaN, NaN>>
             ELSE << RDiv(RAdd(RMul(tf[5], vx), RNeg(RMul(tf[2], vy))), det),
                     RDiv(RAdd(RMul(tf[1], vy), RNeg(RMul(tf[4], vx))), det) >>


(***************************************************************************)
(* Initial state: GeoRefApp.__init__ and the button states of _build_ui.   *)
(* assigned_ids and group_transforms are history variables: the ids handed *)
(* out since the image was loaded, and the transform in force when each    *)
(* ring of current_group_pixels was closed.                                *)
(***************************************************************************)
NoFiles == [shp |-> None, csv |-> None, pgw |-> None]

\* The fields after __init__ (lines 86-111) and _build_ui; nothing is written
\* and no handler has run.
Constructed ==
    /\ image_path = None
    /\ control_points = <<>>
    /\ transform = None
    /\ stage = 1
    /\ drawing = FALSE
    /\ mode_var = "freehand"
    /\ rect_start = None
    /\ current_poly_pixels = <<>>
    /\ current_group_pixels = <<>>
    /\ current_group_name = None
    /\ polygons = <<>>
    /\ next_poly_id = 1
    /\ pan_mode = FALSE
    /\ ignore_next_click = FALSE
    /\ btn_to_polys = FALSE
    /\ btn_new_poly = FALSE
    /\ btn_finish_poly = FALSE
    /\ btn_undo_poly = FALSE
    /\ pending = 0
    /\ written = NoFiles
    /\ assigned_ids = <<>>
    /\ group_transforms = <<>>
    /\ op = ""

\* pyshp is imported.
Init == Constructed /\ shapefile = TRUE

\* pyshp is imported or not (lines 50-53).
InitAnyBuild == Constructed /\ shapefile \in BOOLEAN

\* The variables of the digitizing stage.
drawVars == <<drawing, rect_start, current_poly_pixels, current_group_pixels,
              current_group_name, polygons, next_poly_id, btn_new_poly,
              btn_finish_poly, assigned_ids, group_transforms>>

(***************************************************************************)
(* load_image: the file dialog returns path ("" when cancelled).           *)
(***************************************************************************)
load_image(path) ==
    /\ written' = NoFiles
    /\ UNCHANGED shapefile
    /\ IF path = ""
       THEN UNCHANGED <<image_path, control_points, transform, btn_to_polys,
                        btn_new_poly, btn_undo_poly, polygons, next_poly_id,
                        assigned_ids>>
       ELSE /\ image_path' = <<path>>
            /\ control_points' = <<>>
            /\ transform' = None
            /\ btn_to_polys' = FALSE
            /\ btn_new_poly' = FALSE
            /\ btn_undo_poly' = FALSE
            /\ polygons' = <<>>
            /\ next_poly_id' = 1
            /\ assigned_ids' = <<>>
    /\ UNCHANGED <<stage, drawing, mode_var, rect_start, current_poly_pixels,
                   current_group_pixels, current_group_name, pan_mode,
                   ignore_next_click, btn_finish_poly, pending,
                   group_transforms>>

\* A faulty variant of assign_coord: the point is moved to the pixel of the
\* same numbers.
assign_coord_moving_pixel(idx, xy) ==
    /\ idx \in 1..Len(control_points)
    /\ control_points' = IF xy = None
                         THEN control_points
                         ELSE [control_points EXCEPT ![idx].x = <<xy[1]>>,
                                                     ![idx].y = <<xy[2]>>,
                                                     ![idx].col = xy[1],
                                                     ![idx].row = xy[2]]
    /\ written' = NoFiles
    /\ UNCHANGED shapefile
    /\ UNCHANGED <<image_path, transform, stage, mode_var, pan_mode,
                   ignore_next_click, btn_to_polys, btn_undo_poly, pending>>
    /\ UNCHANGED drawVars

(***************************************************************************)
(* Control points.                                                         *)
(***************************************************************************)
\* assign_coord: idx is the listbox selection, xy the two askfloat answers
\* (None when either dialog is cancelled).
assign_coord(idx, xy) ==
    /\ idx \in 1..Len(control_points)
    /\ control_points' = IF xy = None
                         THEN control_points
                         ELSE [control_points EXCEPT ![idx].x = <<xy[1]>>,
                                                     ![idx].y = <<xy[2]>>]
    /\ written' = NoFiles
    /\ UNCHANGED shapefile
    /\ UNCHANGED <<image_path, transform, stage, mode_var, pan_mode,
                   ignore_next_click, btn_to_polys, btn_undo_poly, pending>>
    /\ UNCHANGED drawVars

\* A faulty variant of ResetsTransform: the reset comes one point too late.
ResetsBelowTwo(cps) == Len(cps) < 2

\* The test of line 738 on the points left after the pop.
ResetsTransform(cps) == Len(cps) < 3

delete_last_point(confirm) ==
    /\ written' = NoFiles
    /\ UNCHANGED shapefile
    /\ IF control_points = <<>> \/ ~confirm
       THEN UNCHANGED <<control_points, transform, btn_to_polys>>
       ELSE /\ control_points' = SubSeq(control_points, 1, Len(control_points) - 1)
            /\ IF ResetsTransform(control_points')
               THEN transform' = None /\ btn_to_polys' = FALSE
               ELSE UNCHANGED <<transform, btn_to_polys>>
    /\ UNCHANGED <<image_path, stage, mode_var, pan_mode, ignore_next_click,
                   btn_undo_poly, pending>>
    /\ UNCHANGED drawVars

clear_all_points(confirm) ==
    /\ written' = NoFiles
    /\ UNCHANGED shapefile
    /\ IF control_points = <<>> \/ ~confirm
       THEN UNCHANGED <<control_points, transform, btn_to_polys>>
       ELSE /\ control_points' = <<>>
            /\ transform' = None
            /\ btn_to_polys' = FALSE
    /\ UNCHANGED <<image_path, stage, mode_var, pan_mode, ignore_next_click,
                   btn_undo_poly, pending>>
    /\ UNCHANGED drawVars

(***************************************************************************)
(* import_control_csv.  table is None when the dialog is cancelled or the  *)
(* file cannot be read; otherwise it is <<[header, rows]>>: the set of     *)
(* column names and the rows read by csv.DictReader.  A cell is None when  *)
(* float() raises on it (text, or a field the row lacks) and <<n>> when    *)
(* float() returns n.                                                      *)
(***************************************************************************)
Dist2(cp, c, r) == (cp.col - c) * (cp.col - c) + (cp.row - r) * (cp.row - r)

\* A faulty variant of Nearest: the last point at the least distance.
NearestLastOnTies(cps, c, r) ==
    CHOOSE i \in 1..Len(cps) :
        \A j \in 1..Len(cps) :
            \/ Dist2(cps[i], c, r) < Dist2(cps[j], c, r)
            \/ Dist2(cps[i], c, r) = Dist2(cps[j], c, r) /\ i >= j

\* min(self.control_points, key=...): the first point at the least distance.
Nearest(cps, c, r) ==
    CHOOSE i \in 1..Len(cps) :
        \A j \in 1..Len(cps) :
            \/ Dist2(cps[i], c, r) < Dist2(cps[j], c, r)
            \/ Dist2(cps[i], c, r) = Dist2(cps[j], c, r) /\ i <= j

\* A faulty variant of ImportNearest: the point found takes the row's pixel
\* coordinates as well.
RECURSIVE ImportNearestMovingPixel(_, _)
ImportNearestMovingPixel(cps, rows) ==
    IF rows = <<>> THEN cps
    ELSE LET r == Head(rows)
         IN  IF r.col = None \/ r.row = None \/ r.x = None \/ r.y = None
             THEN ImportNearestMovingPixel(cps, Tail(rows))
             ELSE LET n == Nearest(cps, r.col[1], r.row[1])
                  IN  ImportNearestMovingPixel(
                          [cps EXCEPT ![n].x = r.x, ![n].y = r.y,
                                      ![n].col = r.col[1], ![n].row = r.row[1]],
                          Tail(rows))

\* Lines 784-792.
RECURSIVE ImportNearest(_, _)
ImportNearest(cps, rows) ==
    IF rows = <<>> THEN cps
    ELSE LET r == Head(rows)
         IN  IF r.col = None \/ r.row = None \/ r.x = None \/ r.y = None
             THEN ImportNearest(cps, Tail(rows))
             ELSE LET n == Nearest(cps, r.col[1], r.row[1])
                  IN  ImportNearest([cps EXCEPT ![n].x = r.x, ![n].y = r.y],
                                    Tail(rows))

\* A faulty variant of ImportPositional: the rows are taken last to first.
ImportPositionalBackwards(cps, rows) ==
    [i \in 1..Len(cps) |->
        LET r == rows[Len(rows) + 1 - i]
        IN  IF r.x = None THEN cps[i]
            ELSE IF r.y = None THEN [cps[i] EXCEPT !.x = r.x]
            ELSE [cps[i] EXCEPT !.x = r.x, !.y = r.y]]

\* Lines 797-801: cp.x is assigned before float(r['y']) is evaluated.
ImportPositional(cps, rows) ==
    [i \in 1..Len(cps) |->
        IF rows[i].x = None THEN cps[i]
        ELSE IF rows[i].y = None THEN [cps[i] EXCEPT !.x = rows[i].x]
        ELSE [cps[i] EXCEPT !.x = rows[i].x, !.y = rows[i].y]]

import_control_csv(table) ==
    /\ control_points' =
          IF control_points = <<>> \/ table = None THEN control_points
          ELSE LET header == table[1].header
                   rows == table[1].rows
               IN  IF rows = <<>> THEN control_points
                   ELSE IF ~({"x", "y"} \subseteq header) THEN control_points
                   ELSE IF {"col", "row"} \subseteq header
                        THEN ImportNearest(control_points, rows)
                   ELSE IF Len(rows) # Len(control_points) THEN control_points
                   ELSE ImportPositional(control_points, rows)
    /\ written' = NoFiles
    /\ UNCHANGED shapefile
    /\ UNCHANGED <<image_path, transform, stage, mode_var, pan_mode,
                   ignore_next_click, btn_to_polys, btn_undo_poly, pending>>
    /\ UNCHANGED drawVars

\* A faulty variant of compute_transform: the committed polygons are mapped
\* again under the new transform.
compute_transform_rederiving ==
    /\ written' = NoFiles
    /\ UNCHANGED shapefile
    /\ IF Len(Complete(control_points)) < 3
       THEN UNCHANGED <<transform, btn_to_polys>>
       ELSE /\ transform' = Fit(Complete(control_points))
            /\ btn_to_polys' = TRUE
    /\ UNCHANGED <<image_path, control_points, stage, mode_var, pan_mode,
                   ignore_next_click, btn_undo_poly, pending>>
    /\ polygons' =
          IF Len(Complete(control_points)) < 3 THEN polygons
          ELSE LET tf == Fit(Complete(control_points))
                   Map(ring) == [i \in 1..Len(ring) |-> pixel_to_world(tf, ring[i])]
               IN  [n \in 1..Len(polygons) |->
                      [polygons[n] EXCEPT !.world_points =
                          IF polygons[n].grouped
                          THEN [r \in 1..Len(polygons[n].pixel_points) |->
                                   Map(polygons[n].pixel_points[r])]
                          ELSE Map(polygons[n].pixel_points)]]
    /\ UNCHANGED <<drawing, rect_start, current_poly_pixels,
                   current_group_pixels, current_group_name, next_poly_id,
                   btn_new_poly, btn_finish_poly, assigned_ids,
                   group_transforms>>

\* A faulty variant of compute_transform: a failed fit drops the transform.
compute_transform_dropping ==
    /\ written' = NoFiles
    /\ UNCHANGED shapefile
    /\ IF Len(Complete(control_points)) < 3
       THEN transform' = None /\ UNCHANGED btn_to_polys
       ELSE /\ transform' = Fit(Complete(control_points))
            /\ btn_to_polys' = TRUE
    /\ UNCHANGED <<image_path, control_points, stage, mode_var, pan_mode,
                   ignore_next_click, btn_undo_poly, pending>>
    /\ UNCHANGED drawVars

compute_transform ==
    /\ written' = NoFiles
    /\ UNCHANGED shapefile
    /\ IF Len(Complete(control_points)) < 3
       THEN UNCHANGED <<transform, btn_to_polys>>
       ELSE /\ transform' = Fit(Complete(control_points))
            /\ btn_to_polys' = TRUE
    /\ UNCHANGED <<image_path, control_points, stage, mode_var, pan_mode,
                   ignore_next_click, btn_undo_poly, pending>>
    /\ UNCHANGED drawVars

\* A faulty variant of WorldFileLines: the lines in storage order.
WorldFileLinesInStorageOrder(tf) == tf

\* Line 845: the six lines, from the transform stored as [A, B, C, D, E, F].
WorldFileLines(tf) == <<tf[1], tf[4], tf[2], tf[5], tf[3], tf[6]>>

\* A faulty variant of save_world_file: the file is written in stage 1 only.
save_world_file_in_stage_one(out_path) ==
    /\ written' = IF transform = None \/ image_path = None \/ out_path = ""
                     \/ stage # 1
                  THEN NoFiles
                  ELSE [NoFiles EXCEPT !.pgw = WorldFileLines(transform)]
    /\ UNCHANGED shapefile
    /\ UNCHANGED <<image_path, control_points, transform, stage, mode_var,
                   pan_mode, ignore_next_click, btn_to_polys, btn_undo_poly,
                   pending>>
    /\ UNCHANGED drawVars

\* out_path is the answer of the save dialog ("" when cancelled); the write
\* succeeds.
save_world_file(out_path) ==
    /\ written' = IF transform = None \/ image_path = None \/ out_path = ""
                  THEN NoFiles
                  ELSE [NoFiles EXCEPT !.pgw = WorldFileLines(transform)]
    /\ UNCHANGED shapefile
    /\ UNCHANGED <<image_path, control_points, transform, stage, mode_var,
                   pan_mode, ignore_next_click, btn_to_polys, btn_undo_poly,
                   pending>>
    /\ UNCHANGED drawVars

\* go_to_polygons: the button btn_to_polys.
go_to_polygons ==
    /\ btn_to_polys
    /\ written' = NoFiles
    /\ UNCHANGED shapefile
    /\ IF transform = None
       THEN UNCHANGED <<stage, btn_new_poly, btn_undo_poly>>
       ELSE /\ stage' = 2
            /\ btn_new_poly' = TRUE
            /\ btn_undo_poly' = TRUE
    /\ UNCHANGED <<image_path, control_points, transform, drawing, mode_var,
                   rect_start, current_poly_pixels, current_group_pixels,
                   current_group_name, polygons, next_poly_id, pan_mode,
                   ignore_next_click, btn_to_polys, btn_finish_poly, pending,
                   assigned_ids, group_transforms>>


(***************************************************************************)
(* Digitizing.  A committed polygon is a DigitizedPolygon; grouped tells   *)
(* whether pixel_points and world_points are lists of rings (the branch of *)
(* lines 663-680) or one ring (lines 630-662), which is what export tests  *)
(* with isinstance(poly.world_points[0], list).                            *)
(***************************************************************************)
DefaultNames == <<"Poligono 1", "Poligono 2", "Poligono 3", "Poligono 4",
                  "Poligono 5", "Poligono 6">>

\* _ask_polygon_name: the dialog's answer, or the default when it is empty.
ask_polygon_name(answer, id) == IF answer = "" THEN DefaultNames[id] ELSE answer

MapRing(tf, ring) == [i \in 1..Len(ring) |-> pixel_to_world(tf, ring[i])]

\* Lines 603-604: the first vertex is appended unless it already ends the ring.
CloseRing(acc) ==
    IF acc[1] # acc[Len(acc)] THEN Append(acc, acc[1]) ELSE acc

DigitizedPolygon(name, pixel_points, world_points, id, grouped) ==
    [id |-> id, name |-> name, pixel_points |-> pixel_points,
     world_points |-> world_points, grouped |-> grouped]

\* Line 584: the call returns at once.
ReturnsAtOnce(drw, acc) == ~drw \/ Len(acc) = 0

\* Line 596: too few vertices for a ring.
\* A faulty variant of TooFew: two vertices are taken for enough.
TooFewBelowTwo(acc) == Len(acc) < 2

TooFew(acc) == Len(acc) < 3

\* Lines 629-680: the polygon made of the rings of the group.
MakePolygon(group, name, id, tf) ==
    IF Len(group) = 1
    THEN DigitizedPolygon(name, group[1], MapRing(tf, group[1]), id, FALSE)
    ELSE DigitizedPolygon(name, group,
                          [i \in 1..Len(group) |-> MapRing(tf, group[i])],
                          id, TRUE)

\* The fields _finish_polygon reads and writes, as a record.
DrawState ==
    [drawing |-> drawing, rect_start |-> rect_start,
     current_poly_pixels |-> current_poly_pixels,
     current_group_pixels |-> current_group_pixels,
     current_group_name |-> current_group_name,
     polygons |-> polygons, next_poly_id |-> next_poly_id,
     btn_new_poly |-> btn_new_poly, btn_finish_poly |-> btn_finish_poly,
     assigned_ids |-> assigned_ids, group_transforms |-> group_transforms]

\* A faulty variant of CommitGroup: the id is the polygon's position in the
\* list.
CommitGroupCountingIds(s, group, name, tf) ==
    [s EXCEPT !.polygons = Append(s.polygons,
                                  MakePolygon(group, name, Len(s.polygons) + 1, tf)),
              !.next_poly_id = s.next_poly_id + 1,
              !.assigned_ids = Append(s.assigned_ids, Len(s.polygons) + 1),
              !.current_group_pixels = <<>>,
              !.current_group_name = None,
              !.group_transforms = <<>>,
              !.current_poly_pixels = <<>>,
              !.drawing = FALSE,
              !.rect_start = None,
              !.btn_new_poly = TRUE,
              !.btn_finish_poly = FALSE]

\* A faulty variant of CommitGroup: the rings of the group are not cleared.
CommitGroupKeepingRings(s, group, name, tf) ==
    [s EXCEPT !.polygons = Append(s.polygons,
                                  MakePolygon(group, name, s.next_poly_id, tf)),
              !.next_poly_id = s.next_poly_id + 1,
              !.assigned_ids = Append(s.assigned_ids, s.next_poly_id),
              !.current_group_pixels = group,
              !.current_group_name = None,
              !.group_transforms = <<>>,
              !.current_poly_pixels = <<>>,
              !.drawing = FALSE,
              !.rect_start = None,
              !.btn_new_poly = TRUE,
              !.btn_finish_poly = FALSE]

\* Lines 682-698 after lines 629-680: the group becomes a polygon.
CommitGroup(s, group, name, tf) ==
    [s EXCEPT !.polygons = Append(s.polygons,
                                  MakePolygon(group, name, s.next_poly_id, tf)),
              !.next_poly_id = s.next_poly_id + 1,
              !.assigned_ids = Append(s.assigned_ids, s.next_poly_id),
              !.current_group_pixels = <<>>,
              !.current_group_name = None,
              !.group_transforms = <<>>,
              !.current_poly_pixels = <<>>,
              !.drawing = FALSE,
              !.rect_start = None,
              !.btn_new_poly = TRUE,
              !.btn_finish_poly = FALSE]

\* A faulty variant of finish_polygon: line 615 is missing, the vertices stay
\* in current_poly_pixels when the ring joins the group.
finish_polygon_keeping_vertices(s, tf, answer, more) ==
    IF ReturnsAtOnce(s.drawing, s.current_poly_pixels) THEN s
    ELSE IF TooFew(s.current_poly_pixels) THEN s
    ELSE LET ring == CloseRing(s.current_poly_pixels)
             name == IF s.current_group_name = None
                     THEN <<ask_polygon_name(answer, s.next_poly_id)>>
                     ELSE s.current_group_name
             group == Append(s.current_group_pixels, ring)
         IN  IF more
             THEN [s EXCEPT !.current_group_name = name,
                            !.current_group_pixels = group,
                            !.group_transforms = Append(s.group_transforms, tf),
                            !.drawing = TRUE,
                            !.btn_new_poly = FALSE,
                            !.btn_finish_poly = TRUE]
             ELSE CommitGroup(s, group, name[1], tf)

(***************************************************************************)
(* _finish_polygon on the state s under the transform tf: answer is what   *)
(* the name dialog returns, more the answer to "add another polygon to     *)
(* this group?".  The result is the state when the call returns.           *)
\* A faulty variant of finish_polygon: line 599 is missing, drawing stays False
\* after the rejection.
finish_polygon_not_restoring(s, tf, answer, more) ==
    IF ReturnsAtOnce(s.drawing, s.current_poly_pixels) THEN s
    ELSE IF TooFew(s.current_poly_pixels) THEN [s EXCEPT !.drawing = FALSE]
    ELSE LET ring == CloseRing(s.current_poly_pixels)
             name == IF s.current_group_name = None
                     THEN <<ask_polygon_name(answer, s.next_poly_id)>>
                     ELSE s.current_group_name
             group == Append(s.current_group_pixels, ring)
         IN  IF more
             THEN [s EXCEPT !.current_group_name = name,
                            !.current_group_pixels = group,
                            !.group_transforms = Append(s.group_transforms, tf),
                            !.current_poly_pixels = <<>>,
                            !.drawing = TRUE,
                            !.btn_new_poly = FALSE,
                            !.btn_finish_poly = TRUE]
             ELSE CommitGroup(s, group, name[1], tf)

(***************************************************************************)
finish_polygon(s, tf, answer, more) ==
    IF ReturnsAtOnce(s.drawing, s.current_poly_pixels) THEN s
    ELSE IF TooFew(s.current_poly_pixels) THEN s
    ELSE LET ring == CloseRing(s.current_poly_pixels)
             name == IF s.current_group_name = None
                     THEN <<ask_polygon_name(answer, s.next_poly_id)>>
                     ELSE s.current_group_name
             group == Append(s.current_group_pixels, ring)
         IN  IF more
             THEN [s EXCEPT !.current_group_name = name,
                            !.current_group_pixels = group,
                            !.group_transforms = Append(s.group_transforms, tf),
                            !.current_poly_pixels = <<>>,
                            !.drawing = TRUE,
                            !.btn_new_poly = FALSE,
                            !.btn_finish_poly = TRUE]
             ELSE CommitGroup(s, group, name[1], tf)

\* The state s written back to the fields.
SetDrawState(s) ==
    /\ drawing' = s.drawing
    /\ rect_start' = s.rect_start
    /\ current_poly_pixels' = s.current_poly_pixels
    /\ current_group_pixels' = s.current_group_pixels
    /\ current_group_name' = s.current_group_name
    /\ polygons' = s.polygons
    /\ next_poly_id' = s.next_poly_id
    /\ btn_new_poly' = s.btn_new_poly
    /\ btn_finish_poly' = s.btn_finish_poly
    /\ assigned_ids' = s.assigned_ids
    /\ group_transforms' = s.group_transforms

(***************************************************************************)
(* Callbacks scheduled by _finish_polygon_button that run while a call of  *)
(* _finish_polygon waits in one of its modal dialogs find drawing False    *)
(* and return at line 585: k of them are used up by a call that shows a    *)
(* dialog, none by a call that returns at once.                            *)
(***************************************************************************)
NestedCallbacks(s, k) ==
    IF ReturnsAtOnce(s.drawing, s.current_poly_pixels)
    THEN k = 0
    ELSE k \in 0..pending /\ (k > 0 => ReturnsAtOnce(FALSE, s.current_poly_pixels))

\* _finish_polygon_button: the button btn_finish_poly.
finish_polygon_button ==
    /\ btn_finish_poly
    /\ ignore_next_click' = TRUE
    /\ pending' = pending + 1
    /\ written' = NoFiles
    /\ UNCHANGED shapefile
    /\ UNCHANGED <<image_path, control_points, transform, stage, mode_var,
                   pan_mode, btn_to_polys, btn_undo_poly>>
    /\ UNCHANGED drawVars

\* The callback of root.after(10, self._finish_polygon).
finish_polygon_callback(answer, more, k) ==
    /\ pending > 0
    /\ k < pending
    /\ NestedCallbacks(DrawState, k)
    /\ pending' = pending - 1 - k
    /\ SetDrawState(finish_polygon(DrawState, transform, answer, more))
    /\ written' = NoFiles
    /\ UNCHANGED shapefile
    /\ UNCHANGED <<image_path, control_points, transform, stage, mode_var,
                   pan_mode, ignore_next_click, btn_to_polys, btn_undo_poly>>


\* Nothing but the handler's return.
Returns ==
    /\ written' = NoFiles
    /\ UNCHANGED <<image_path, control_points, transform, stage, mode_var,
                   pan_mode, ignore_next_click, btn_to_polys, btn_undo_poly,
                   pending, shapefile>>
    /\ UNCHANGED drawVars

\* Line 460: the ring of a rectangle from two opposite corners.
RectanglePoints(p1, p2) ==
    << <<p1[1], p1[2]>>, <<p2[1], p1[2]>>, <<p2[1], p2[2]>>, <<p1[1], p2[2]>> >>

(***************************************************************************)
(* on_click: a mouse press at pixel px inside the image with the given     *)
(* button; answer, more and k are for the call of _finish_polygon that the *)
(* second corner of a rectangle makes.                                     *)
(***************************************************************************)
on_click(px, button, answer, more, k) ==
    /\ written' = NoFiles
    /\ UNCHANGED <<image_path, transform, stage, mode_var, pan_mode,
                   btn_to_polys, btn_undo_poly, shapefile>>
    /\ IF ignore_next_click
       THEN /\ ignore_next_click' = FALSE
            /\ UNCHANGED <<control_points, pending>>
            /\ UNCHANGED drawVars
       ELSE /\ UNCHANGED ignore_next_click
            /\ IF pan_mode /\ button = 1
               THEN UNCHANGED <<control_points, pending>> /\ UNCHANGED drawVars
               ELSE IF stage = 1
               THEN /\ UNCHANGED pending
                    /\ UNCHANGED drawVars
                    /\ IF image_path = None
                       THEN UNCHANGED control_points
                       ELSE control_points' =
                                 Append(control_points, ControlPoint(px[1], px[2]))
               ELSE /\ UNCHANGED control_points
                    /\ IF pan_mode \/ ~drawing
                       THEN UNCHANGED pending /\ UNCHANGED drawVars
                       ELSE IF mode_var = "freehand"
                       THEN /\ UNCHANGED pending
                            /\ SetDrawState(
                                 [DrawState EXCEPT
                                    !.current_poly_pixels = Append(@, px),
                                    !.btn_finish_poly =
                                        IF Len(current_poly_pixels) + 1 >= 3
                                        THEN TRUE ELSE @])
                       ELSE IF rect_start = None
                       THEN /\ UNCHANGED pending
                            /\ SetDrawState([DrawState EXCEPT !.rect_start = px])
                       ELSE LET s == [DrawState EXCEPT
                                        !.current_poly_pixels =
                                            RectanglePoints(rect_start, px),
                                        !.rect_start = None]
                            IN  /\ NestedCallbacks(s, k)
                                /\ pending' = pending - k
                                /\ SetDrawState(
                                     finish_polygon(s, transform, answer, more))

\* start_polygon: the button btn_new_poly.
start_polygon ==
    /\ btn_new_poly
    /\ IF transform = None \/ pan_mode
       THEN Returns
       ELSE /\ drawing' = TRUE
            /\ rect_start' = None
            /\ current_poly_pixels' = <<>>
            /\ btn_new_poly' = FALSE
            /\ btn_finish_poly' = FALSE
            /\ written' = NoFiles
            /\ UNCHANGED <<image_path, control_points, transform, stage, mode_var,
                           pan_mode, ignore_next_click, btn_to_polys,
                           btn_undo_poly, pending, shapefile,
                           current_group_pixels, current_group_name, polygons,
                           next_poly_id, assigned_ids, group_transforms>>

\* A faulty variant of delete_last_polygon: the id of the removed polygon is
\* given back.
delete_last_polygon_lowering_id ==
    /\ btn_undo_poly
    /\ IF polygons = <<>>
       THEN Returns
       ELSE /\ polygons' = SubSeq(polygons, 1, Len(polygons) - 1)
            /\ next_poly_id' = next_poly_id - 1
            /\ written' = NoFiles
            /\ UNCHANGED <<image_path, control_points, transform, stage, mode_var,
                           pan_mode, ignore_next_click, btn_to_polys,
                           btn_undo_poly, pending, shapefile, drawing, rect_start,
                           current_poly_pixels, current_group_pixels,
                           current_group_name, btn_new_poly,
                           btn_finish_poly, assigned_ids, group_transforms>>

\* delete_last_polygon: the button btn_undo_poly.
delete_last_polygon ==
    /\ btn_undo_poly
    /\ IF polygons = <<>>
       THEN Returns
       ELSE /\ polygons' = SubSeq(polygons, 1, Len(polygons) - 1)
            /\ written' = NoFiles
            /\ UNCHANGED <<image_path, control_points, transform, stage, mode_var,
                           pan_mode, ignore_next_click, btn_to_polys,
                           btn_undo_poly, pending, shapefile, drawing, rect_start,
                           current_poly_pixels, current_group_pixels,
                           current_group_name, next_poly_id, btn_new_poly,
                           btn_finish_poly, assigned_ids, group_transforms>>

\* The radio buttons bound to mode_var.
set_mode(m) ==
    /\ mode_var' = m
    /\ written' = NoFiles
    /\ UNCHANGED <<image_path, control_points, transform, stage, pan_mode,
                   ignore_next_click, btn_to_polys, btn_undo_poly, pending,
                   shapefile>>
    /\ UNCHANGED drawVars

toggle_pan ==
    /\ pan_mode' = ~pan_mode
    /\ written' = NoFiles
    /\ UNCHANGED <<image_path, control_points, transform, stage, mode_var,
                   ignore_next_click, btn_to_polys, btn_undo_poly, pending,
                   shapefile>>
    /\ UNCHANGED drawVars

reset_view ==
    IF image_path # None /\ pan_mode THEN toggle_pan ELSE Returns

\* Lines 561-570: Escape while drawing in stage 2.
CancelDrawing ==
    /\ current_poly_pixels' = <<>>
    /\ drawing' = FALSE
    /\ rect_start' = None
    /\ btn_new_poly' = TRUE
    /\ btn_finish_poly' = FALSE
    /\ written' = NoFiles
    /\ UNCHANGED <<image_path, control_points, transform, stage, mode_var,
                   pan_mode, ignore_next_click, btn_to_polys, btn_undo_poly,
                   pending, shapefile, current_group_pixels, current_group_name,
                   polygons, next_poly_id, assigned_ids, group_transforms>>

Keys == {"p", "r", "Delete", "ctrl+Delete", "Enter", "escape"}

(***************************************************************************)
(* on_key_press: confirm answers the dialog of delete_last_point and       *)
(* clear_all_points; answer, more and k are for _finish_polygon.           *)
(***************************************************************************)
on_key_press(key, confirm, answer, more, k) ==
    CASE key = "p" -> toggle_pan
      [] key = "r" -> reset_view
      [] key = "Delete" ->
            IF stage = 1 THEN delete_last_point(confirm) ELSE Returns
      [] key = "ctrl+Delete" ->
            IF stage = 1 THEN clear_all_points(confirm) ELSE Returns
      [] key = "Enter" ->
            IF stage = 2 /\ drawing /\ Len(current_poly_pixels) >= 3
            THEN /\ NestedCallbacks(DrawState, k)
                 /\ pending' = pending - k
                 /\ SetDrawState(finish_polygon(DrawState, transform, answer, more))
                 /\ written' = NoFiles
                 /\ UNCHANGED <<image_path, control_points, transform, stage,
                                mode_var, pan_mode, ignore_next_click,
                                btn_to_polys, btn_undo_poly, shapefile>>
            ELSE Returns
      [] key = "escape" ->
            IF stage = 2 /\ drawing THEN CancelDrawing ELSE Returns


(***************************************************************************)
(* export_polygons.  Python compares the tuples part[0] and part[-1] by    *)
(* value, where a nan differs from every float, itself included: the       *)
(* tuples that pixel_to_world returns without a transform are never equal. *)
(***************************************************************************)
PyNotEqual(a, b) == a # b \/ a[1] = NaN \/ a[2] = NaN \/ b[1] = NaN \/ b[2] = NaN

\* Lines 922-923 and 930-931.
ClosedPart(part) ==
    IF PyNotEqual(part[1], part[Len(part)]) THEN Append(part, part[1]) ELSE part

\* A faulty variant of ShapeRecord: only the first ring of a group is written.
ShapeRecordFirstPart(poly) ==
    [ID |-> poly.id, NAME |-> poly.name,
     parts |-> IF poly.grouped
               THEN <<ClosedPart(poly.world_points[1])>>
               ELSE <<ClosedPart(poly.world_points)>>]

\* Lines 912-933: w.poly(parts) and w.record(poly.id, poly.name).
ShapeRecord(poly) ==
    [ID |-> poly.id, NAME |-> poly.name,
     parts |-> IF poly.grouped
               THEN [i \in 1..Len(poly.world_points) |->
                        ClosedPart(poly.world_points[i])]
               ELSE <<ClosedPart(poly.world_points)>>]

ShapefileRecords(polys) == [i \in 1..Len(polys) |-> ShapeRecord(polys[i])]

RECURSIVE Concat(_)
Concat(ss) == IF ss = <<>> THEN <<>> ELSE Head(ss) \o Concat(Tail(ss))

\* A faulty variant of VertexRows: vertices are numbered from 1.
VertexRowsOneBased(poly) ==
    IF poly.grouped
    THEN Concat([p \in 1..Len(poly.world_points) |->
            [i \in 1..Len(poly.world_points[p]) |->
                [poly_id |-> poly.id, name |-> poly.name,
                 vertex_index |-> [part |-> <<p - 1>>, v |-> i],
                 x |-> poly.world_points[p][i][1],
                 y |-> poly.world_points[p][i][2]]]])
    ELSE [i \in 1..Len(poly.world_points) |->
            [poly_id |-> poly.id, name |-> poly.name,
             vertex_index |-> [part |-> None, v |-> i],
             x |-> poly.world_points[i][1],
             y |-> poly.world_points[i][2]]]

\* Lines 942-953: vertex_index is the integer i, or the text part<p>_v<i>.
VertexRows(poly) ==
    IF poly.grouped
    THEN Concat([p \in 1..Len(poly.world_points) |->
            [i \in 1..Len(poly.world_points[p]) |->
                [poly_id |-> poly.id, name |-> poly.name,
                 vertex_index |-> [part |-> <<p - 1>>, v |-> i - 1],
                 x |-> poly.world_points[p][i][1],
                 y |-> poly.world_points[p][i][2]]]])
    ELSE [i \in 1..Len(poly.world_points) |->
            [poly_id |-> poly.id, name |-> poly.name,
             vertex_index |-> [part |-> None, v |-> i - 1],
             x |-> poly.world_points[i][1],
             y |-> poly.world_points[i][2]]]

CsvHeader == <<"poly_id", "name", "vertex_index", "x", "y">>

\* A faulty variant of VertexCsv: only the newest polygon is written.
VertexCsvLastPolygon(polys) ==
    [header |-> CsvHeader, rows |-> VertexRows(polys[Len(polys)])]

VertexCsv(polys) ==
    [header |-> CsvHeader,
     rows |-> Concat([i \in 1..Len(polys) |-> VertexRows(polys[i])])]

\* A faulty variant of export_polygons: with no polygons the table is written
\* with its header alone.
export_polygons_empty_table(base) ==
    /\ written' = IF base = "" \/ ~shapefile
                  THEN NoFiles
                  ELSE IF polygons = <<>>
                       THEN [NoFiles EXCEPT !.csv = VertexCsv(polygons)]
                       ELSE [NoFiles EXCEPT !.shp = ShapefileRecords(polygons),
                                            !.csv = VertexCsv(polygons)]
    /\ UNCHANGED <<image_path, control_points, transform, stage, mode_var,
                   pan_mode, ignore_next_click, btn_to_polys, btn_undo_poly,
                   pending, shapefile>>
    /\ UNCHANGED drawVars

\* base is the answer of the save dialog ("" when cancelled); writes succeed.
export_polygons(base) ==
    /\ written' = IF polygons = <<>> \/ base = "" \/ ~shapefile
                  THEN NoFiles
                  ELSE [NoFiles EXCEPT !.shp = ShapefileRecords(polygons),
                                       !.csv = VertexCsv(polygons)]
    /\ UNCHANGED <<image_path, control_points, transform, stage, mode_var,
                   pan_mode, ignore_next_click, btn_to_polys, btn_undo_poly,
                   pending, shapefile>>
    /\ UNCHANGED drawVars


(***************************************************************************)
(* Bounds and inputs.  Bounded limits the lengths of the collections and   *)
(* the counters; the inputs say where the operator clicks and what the     *)
(* operator types.                                                         *)
(***************************************************************************)
Bounded(mpoints, mverts, mrings, mpolys, mid, mpending) ==
    /\ Len(control_points) <= mpoints
    /\ Len(current_poly_pixels) <= mverts
    /\ Len(current_group_pixels) <= mrings
    /\ Len(polygons) <= mpolys
    /\ next_poly_id <= mid + 1
    /\ pending <= mpending

ImagePaths == {"a.png"}
Modes == {"freehand", "rectangle"}

\* A survey of control points: the i-th click, and the coordinate typed for a
\* point (x = 10 + 2 col, y = 20 - 2 row).
SurveyClicks ==
    IF Len(control_points) = 0 THEN {<<0, 0>>}
    ELSE IF Len(control_points) = 1 THEN {<<1, 0>>}
    ELSE IF Len(control_points) = 2 THEN {<<0, 1>>}
    ELSE {<<1, 1>>}

SurveyWorld(cp) == <<10 + 2 * cp.col, 20 - 2 * cp.row>>

\* The same point surveyed again, 100 further east.
ResurveyWorld(cp) == <<110 + 2 * cp.col, 20 - 2 * cp.row>>

\* Tracing a ring: the corners (0,0), (1,0), then (1,1) or (0,0) again; a
\* rectangle from (0,0) to (1,1).
TraceClicks ==
    IF mode_var = "rectangle"
    THEN (IF rect_start = None THEN {<<0, 0>>} ELSE {<<1, 1>>})
    ELSE IF Len(current_poly_pixels) = 0 THEN {<<0, 0>>}
    ELSE IF Len(current_poly_pixels) = 1 THEN {<<1, 0>>}
    ELSE {<<1, 1>>, <<0, 0>>}

Clicks == IF stage = 1 THEN SurveyClicks ELSE TraceClicks

\* The survey is entered point by point: a click, then its coordinate.
Surveyed == Complete(control_points) = control_points

\* A CSV without col and row that moves every point 100 east, and one with
\* col and row whose single row is the point at (0,0) surveyed again.
PositionalTable ==
    <<[header |-> {"x", "y"},
       rows |-> [i \in 1..Len(control_points) |->
                   [col |-> None, row |-> None,
                    x |-> <<ResurveyWorld(control_points[i])[1]>>,
                    y |-> <<ResurveyWorld(control_points[i])[2]>>]]]>>

NearestTable ==
    <<[header |-> {"col", "row", "x", "y"},
       rows |-> <<[col |-> <<0>>, row |-> <<0>>, x |-> <<110>>, y |-> <<20>>]>>]>>

(***************************************************************************)
(* SpecPoints: stage 1, placing, completing and deleting control points.   *)
(***************************************************************************)
PointsMaxPoints == 4

PointsBounded == Bounded(PointsMaxPoints, 0, 0, 0, 0, 0)

NextPoints ==
    \/ \E path \in ImagePaths \cup {""} : load_image(path) /\ PointsBounded' /\ UNCHANGED op
    \/ \E px \in SurveyClicks :
            on_click(px, 1, "", FALSE, 0) /\ PointsBounded' /\ UNCHANGED op
    \/ \E key \in {"Delete", "ctrl+Delete"}, confirm \in BOOLEAN :
            on_key_press(key, confirm, "", FALSE, 0) /\ PointsBounded' /\ UNCHANGED op
    \/ \E idx \in 1..Len(control_points) :
       \E xy \in {SurveyWorld(control_points[idx]),
                   ResurveyWorld(control_points[idx]), None} :
            assign_coord(idx, xy) /\ PointsBounded' /\ UNCHANGED op
    \/ \E confirm \in BOOLEAN : delete_last_point(confirm) /\ PointsBounded' /\ UNCHANGED op
    \/ \E confirm \in BOOLEAN : clear_all_points(confirm) /\ PointsBounded' /\ UNCHANGED op
    \/ compute_transform /\ PointsBounded' /\ UNCHANGED op
    \/ save_world_file("out.pgw") /\ PointsBounded' /\ UNCHANGED op
    \/ go_to_polygons /\ PointsBounded' /\ UNCHANGED op

SpecPoints == Init /\ [][NextPoints]_vars

(***************************************************************************)
(* SpecRing: drawing rings and committing them, freehand and rectangle, on *)
(* an image georeferenced by the survey.                                   *)
(***************************************************************************)
RingMaxPoints == 3
RingMaxVerts == 3
RingMaxRings == 2
RingMaxPolys == 1
RingMaxId == 1
RingMaxPending == 1
RingNames == {""}

RingBounded ==
    Bounded(RingMaxPoints, RingMaxVerts, RingMaxRings, RingMaxPolys, RingMaxId,
            RingMaxPending)

NextRing ==
    \/ \E path \in ImagePaths :
            image_path = None /\ load_image(path) /\ RingBounded' /\ UNCHANGED op
    \/ \E px \in Clicks, answer \in RingNames, more \in BOOLEAN,
          k \in 0..RingMaxPending :
            /\ stage = 1 => Surveyed
            /\ on_click(px, 1, answer, more, k) /\ RingBounded' /\ UNCHANGED op
    \/ \E key \in {"Enter", "escape"}, answer \in RingNames, more \in BOOLEAN,
          k \in 0..RingMaxPending :
            on_key_press(key, TRUE, answer, more, k) /\ RingBounded' /\ UNCHANGED op
    \/ \E idx \in {Len(control_points)} \ {0} :
            /\ stage = 1 /\ ~Surveyed
            /\ assign_coord(idx, SurveyWorld(control_points[idx]))
            /\ RingBounded' /\ UNCHANGED op
    \/ stage = 1 /\ transform = None /\ compute_transform /\ RingBounded' /\ UNCHANGED op
    \/ go_to_polygons /\ RingBounded' /\ UNCHANGED op
    \/ start_polygon /\ RingBounded' /\ UNCHANGED op
    \/ finish_polygon_button /\ RingBounded' /\ UNCHANGED op
    \/ \E answer \in RingNames, more \in BOOLEAN, k \in 0..RingMaxPending :
            finish_polygon_callback(answer, more, k) /\ RingBounded' /\ UNCHANGED op
    \/ \E m \in Modes : stage = 2 /\ set_mode(m) /\ RingBounded' /\ UNCHANGED op

SpecRing == Init /\ [][NextRing]_vars

(***************************************************************************)
(* SpecPolys: committing, deleting and exporting polygons drawn freehand;  *)
(* another image may be loaded at any time.                                *)
(***************************************************************************)
PolysMaxPoints == 3
PolysMaxVerts == 3
PolysMaxRings == 2
PolysMaxPolys == 2
PolysMaxId == 3
PolysNames == {""}

PolysBounded ==
    Bounded(PolysMaxPoints, PolysMaxVerts, PolysMaxRings, PolysMaxPolys,
            PolysMaxId, 0)

NextPolys ==
    \/ \E path \in ImagePaths : load_image(path) /\ PolysBounded' /\ UNCHANGED op
    \/ \E px \in Clicks :
            /\ stage = 1 => Surveyed
            /\ on_click(px, 1, "", FALSE, 0) /\ PolysBounded' /\ UNCHANGED op
    \/ \E answer \in PolysNames, more \in BOOLEAN :
            on_key_press("Enter", TRUE, answer, more, 0) /\ PolysBounded' /\ UNCHANGED op
    \/ \E idx \in {Len(control_points)} \ {0} :
            /\ stage = 1 /\ ~Surveyed
            /\ assign_coord(idx, SurveyWorld(control_points[idx]))
            /\ PolysBounded' /\ UNCHANGED op
    \/ stage = 1 /\ transform = None /\ compute_transform /\ PolysBounded' /\ UNCHANGED op
    \/ go_to_polygons /\ PolysBounded' /\ UNCHANGED op
    \/ start_polygon /\ PolysBounded' /\ UNCHANGED op
    \/ delete_last_polygon /\ PolysBounded' /\ UNCHANGED op
    \/ \E base \in {"out.shp", ""} : export_polygons(base) /\ PolysBounded' /\ UNCHANGED op

SpecPolys == Init /\ [][NextPolys]_vars

(***************************************************************************)
(* SpecEdit: the control points and the transform are edited while         *)
(* polygons are drawn, deleted and exported.                               *)
(***************************************************************************)
EditMaxPoints == 3
EditMaxVerts == 3
EditMaxRings == 2
EditMaxPolys == 1
EditMaxId == 1

EditBounded ==
    Bounded(EditMaxPoints, EditMaxVerts, EditMaxRings, EditMaxPolys, EditMaxId, 0)

EditClicks ==
    IF stage = 1 THEN SurveyClicks
    ELSE IF Len(current_poly_pixels) = 0 THEN {<<0, 0>>}
    ELSE IF Len(current_poly_pixels) = 1 THEN {<<1, 0>>}
    ELSE {<<1, 1>>}

NextEdit ==
    \/ \E path \in ImagePaths : load_image(path) /\ EditBounded' /\ UNCHANGED op
    \/ \E px \in EditClicks :
            /\ stage = 1 => Surveyed
            /\ on_click(px, 1, "", FALSE, 0) /\ EditBounded' /\ UNCHANGED op
    \/ \E key \in Keys, more \in BOOLEAN :
            on_key_press(key, TRUE, "", more, 0) /\ EditBounded' /\ UNCHANGED op
    \/ \E idx \in {Len(control_points)} \ {0} :
            /\ stage = 1 /\ ~Surveyed
            /\ assign_coord(idx, SurveyWorld(control_points[idx]))
            /\ EditBounded' /\ UNCHANGED op
    \/ /\ stage = 2 /\ control_points # <<>>
       /\ assign_coord(1, ResurveyWorld(control_points[1])) /\ EditBounded' /\ UNCHANGED op
    \/ \E table \in {PositionalTable, NearestTable, None} :
            stage = 2 /\ import_control_csv(table) /\ EditBounded' /\ UNCHANGED op
    \/ compute_transform /\ EditBounded' /\ UNCHANGED op
    \/ delete_last_point(TRUE) /\ EditBounded' /\ UNCHANGED op
    \/ clear_all_points(TRUE) /\ EditBounded' /\ UNCHANGED op
    \/ save_world_file("out.pgw") /\ EditBounded' /\ UNCHANGED op
    \/ go_to_polygons /\ EditBounded' /\ UNCHANGED op
    \/ start_polygon /\ EditBounded' /\ UNCHANGED op
    \/ delete_last_polygon /\ EditBounded' /\ UNCHANGED op
    \/ \E base \in {"out.shp", ""} : export_polygons(base) /\ EditBounded' /\ UNCHANGED op
    \/ toggle_pan /\ EditBounded' /\ UNCHANGED op

SpecEdit == Init /\ [][NextEdit]_vars

(***************************************************************************)
(* SpecFiles: the world file and the export, with or without pyshp.  The   *)
(* survey is the one whose fit is A = 1, B = 0, C = 100, D = 0, E = -1,    *)
(* F = 200; op records which of the two file handlers ran last.            *)
(***************************************************************************)
FilesMaxPoints == 3
FilesMaxVerts == 3
FilesMaxRings == 2
FilesMaxPolys == 2
FilesMaxId == 2

FilesBounded ==
    Bounded(FilesMaxPoints, FilesMaxVerts, FilesMaxRings, FilesMaxPolys,
            FilesMaxId, 0)

\* The coordinate typed for a point: x = 100 + col, y = 200 - row.
ExampleWorld(cp) == <<100 + cp.col, 200 - cp.row>>

NextFiles ==
    \/ \E path \in ImagePaths :
            load_image(path) /\ FilesBounded' /\ op' = ""
    \/ \E px \in EditClicks :
            /\ stage = 1 => Surveyed
            /\ on_click(px, 1, "", FALSE, 0) /\ FilesBounded' /\ op' = ""
    \/ \E more \in BOOLEAN :
            on_key_press("Enter", TRUE, "", more, 0) /\ FilesBounded' /\ op' = ""
    \/ \E idx \in {Len(control_points)} \ {0} :
            /\ stage = 1 /\ ~Surveyed
            /\ assign_coord(idx, ExampleWorld(control_points[idx]))
            /\ FilesBounded' /\ op' = ""
    \/ stage = 1 /\ compute_transform /\ FilesBounded' /\ op' = ""
    \/ \E out_path \in {"out.pgw", ""} :
            save_world_file(out_path) /\ FilesBounded' /\ op' = "save_world_file"
    \/ go_to_polygons /\ FilesBounded' /\ op' = ""
    \/ start_polygon /\ FilesBounded' /\ op' = ""
    \/ delete_last_polygon /\ FilesBounded' /\ op' = ""
    \/ \E base \in {"out.shp", ""} :
            export_polygons(base) /\ FilesBounded' /\ op' = "export_polygons"

SpecFiles == InitAnyBuild /\ [][NextFiles]_vars

(***************************************************************************)
(* SpecImport: importing world coordinates from CSV tables, before and     *)
(* after the fit and with a polygon committed; op records an import.       *)
(***************************************************************************)
ImportMaxPoints == 3
ImportMaxVerts == 3
ImportMaxPolys == 1
ImportMaxId == 1

ImportBounded ==
    Bounded(ImportMaxPoints, ImportMaxVerts, 0, ImportMaxPolys, ImportMaxId, 0)

\* Rows of a CSV with the columns x, y: two good rows, one whose y and one
\* whose x float() rejects.
RowA == [col |-> None, row |-> None, x |-> <<7>>, y |-> <<8>>]
RowB == [col |-> None, row |-> None, x |-> <<9>>, y |-> <<8>>]
RowBadY == [col |-> None, row |-> None, x |-> <<9>>, y |-> None]
RowBadX == [col |-> None, row |-> None, x |-> None, y |-> <<8>>]

\* Rows of a CSV with the columns col, row, x, y: at the pixel (0,0); at
\* (1,1), as far from (1,0) as from (0,1); and one whose col float() rejects.
RowAtOrigin == [col |-> <<0>>, row |-> <<0>>, x |-> <<7>>, y |-> <<8>>]
RowBetween == [col |-> <<1>>, row |-> <<1>>, x |-> <<9>>, y |-> <<8>>]
RowBetweenAgain == [col |-> <<1>>, row |-> <<1>>, x |-> <<7>>, y |-> <<8>>]
RowBadCol == [col |-> None, row |-> <<0>>, x |-> <<9>>, y |-> <<8>>]

PositionalTables ==
    {<<[header |-> {"x", "y"}, rows |-> rows]>> :
        rows \in {<<>>, <<RowB>>, <<RowA, RowB>>, <<RowBadY, RowA>>,
                  <<RowA, RowB, RowA>>, <<RowB, RowBadY, RowA>>,
                  <<RowBadX, RowA, RowB>>}}

NearestTables ==
    {<<[header |-> {"col", "row", "x", "y"}, rows |-> rows]>> :
        rows \in {<<RowAtOrigin>>, <<RowBetween>>,
                  <<RowBetween, RowBetweenAgain>>,
                  <<RowBadCol, RowAtOrigin>>, <<RowBetween, RowBadCol>>}}

\* A CSV without the columns x, y, and the dialog cancelled (None).
ImportTables ==
    PositionalTables \cup NearestTables
        \cup {<<[header |-> {"col", "row"}, rows |-> <<RowAtOrigin>>]>>, None}

NextImport ==
    \/ \E path \in ImagePaths :
            image_path = None /\ load_image(path) /\ ImportBounded' /\ op' = ""
    \/ \E px \in EditClicks :
            /\ stage = 1 => Surveyed
            /\ on_click(px, 1, "", FALSE, 0) /\ ImportBounded' /\ op' = ""
    \/ on_key_press("Enter", TRUE, "", FALSE, 0) /\ ImportBounded' /\ op' = ""
    \/ \E idx \in {Len(control_points)} \ {0} :
            /\ stage = 1 /\ ~Surveyed
            /\ assign_coord(idx, SurveyWorld(control_points[idx]))
            /\ ImportBounded' /\ op' = ""
    \/ transform = None /\ compute_transform /\ ImportBounded' /\ op' = ""
    \/ go_to_polygons /\ ImportBounded' /\ op' = ""
    \/ start_polygon /\ ImportBounded' /\ op' = ""
    \/ \E table \in ImportTables :
            /\ import_control_csv(table) /\ ImportBounded'
            /\ op' = "import_control_csv"

SpecImport == Init /\ [][NextImport]_vars

(***************************************************************************)
(* SpecFit: fitting the transform on points that are placed, completed,    *)
(* imported and deleted in any order; the third point may lie on the line  *)
(* of the first two.  op records a press of the fit button.                *)
(***************************************************************************)
FitMaxPoints == 4

FitBounded == Bounded(FitMaxPoints, 0, 0, 0, 0, 0)

\* The i-th click: (0,0), (10,0), then (0,10) or, on the line of the first
\* two, (20,0), then (10,10).
FitClicks ==
    IF Len(control_points) = 0 THEN {<<0, 0>>}
    ELSE IF Len(control_points) = 1 THEN {<<10, 0>>}
    ELSE IF Len(control_points) = 2 THEN {<<0, 10>>, <<20, 0>>}
    ELSE {<<10, 10>>}

NextFit ==
    \/ \E path \in ImagePaths :
            image_path = None /\ load_image(path) /\ FitBounded' /\ op' = ""
    \/ \E px \in FitClicks :
            on_click(px, 1, "", FALSE, 0) /\ FitBounded' /\ op' = ""
    \/ \E idx \in 1..Len(control_points) :
       \E xy \in {ExampleWorld(control_points[idx]),
                   SurveyWorld(control_points[idx])} :
            assign_coord(idx, xy) /\ FitBounded' /\ op' = ""
    \/ import_control_csv(NearestTable) /\ FitBounded' /\ op' = ""
    \/ delete_last_point(TRUE) /\ FitBounded' /\ op' = ""
    \/ compute_transform /\ FitBounded' /\ op' = "compute_transform"

SpecFit == Init /\ [][NextFit]_vars

(***************************************************************************)
(* SpecSession: a session in which the image is loaded again at any time,  *)
(* the finish button is pressed up to SessionMaxPending times before its   *)
(* callbacks run, pan mode is switched and the image is clicked with the   *)
(* left (1) or the right (3) button.  op records a load of an image.       *)
(***************************************************************************)
SessionMaxPoints == 3
SessionMaxVerts == 3
SessionMaxRings == 2
SessionMaxPolys == 1
SessionMaxId == 1
SessionMaxPending == 2

SessionBounded ==
    Bounded(SessionMaxPoints, SessionMaxVerts, SessionMaxRings,
            SessionMaxPolys, SessionMaxId, SessionMaxPending)

Buttons == {1, 3}

NextSession ==
    \/ \E path \in ImagePaths :
            load_image(path) /\ SessionBounded' /\ op' = "load_image"
    \/ \E px \in EditClicks, button \in Buttons :
            /\ stage = 1 => Surveyed
            /\ on_click(px, button, "", FALSE, 0)
            /\ SessionBounded' /\ op' = ""
    \/ \E idx \in {Len(control_points)} \ {0} :
            /\ stage = 1 /\ ~Surveyed
            /\ assign_coord(idx, SurveyWorld(control_points[idx]))
            /\ SessionBounded' /\ op' = ""
    \/ /\ stage = 1 /\ transform = None
       /\ compute_transform /\ SessionBounded' /\ op' = ""
    \/ go_to_polygons /\ SessionBounded' /\ op' = ""
    \/ start_polygon /\ SessionBounded' /\ op' = ""
    \/ finish_polygon_button /\ SessionBounded' /\ op' = ""
    \/ \E more \in BOOLEAN, k \in 0..SessionMaxPending :
            finish_polygon_callback("", more, k) /\ SessionBounded' /\ op' = ""
    \/ toggle_pan /\ SessionBounded' /\ op' = ""

SpecSession == Init /\ [][NextSession]_vars

(***************************************************************************)
(* Properties.                                                             *)
(***************************************************************************)
\* The rings of a committed polygon, in pixels and in world coordinates.
PixelRings(poly) ==
    IF poly.grouped THEN poly.pixel_points ELSE <<poly.pixel_points>>

WorldRings(poly) ==
    IF poly.grouped THEN poly.world_points ELSE <<poly.world_points>>

\* The fields of GeoRefApp and the state of its buttons and callbacks.
fields == <<image_path, control_points, transform, stage, drawing, mode_var,
            rect_start, current_poly_pixels, current_group_pixels,
            current_group_name, polygons, next_poly_id, pan_mode,
            ignore_next_click, btn_to_polys, btn_new_poly, btn_finish_poly,
            btn_undo_poly, pending>>

\* A step of delete_last_point or clear_all_points, from the button or the key.
DeletesPoints ==
    \E confirm \in BOOLEAN :
        \/ delete_last_point(confirm)
        \/ clear_all_points(confirm)
        \/ on_key_press("Delete", confirm, "", FALSE, 0)
        \/ on_key_press("ctrl+Delete", confirm, "", FALSE, 0)

\* C1 as stated: after a delete_last_point or clear_all_points that leaves
\* fewer than 3 control points with both world coordinates set, transform is
\* None.
C1_ResetBelowThreeComplete ==
    [][DeletesPoints /\ Len(Complete(control_points')) < 3
          => transform' = None]_vars

\* C1 (amended): after a delete_last_point or clear_all_points that leaves
\* fewer than 3 control points, complete or not, transform is None.
C1_ResetBelowThreePoints ==
    [][DeletesPoints /\ Len(control_points') < 3 => transform' = None]_vars

\* In stage 2 the transform has been computed; two points are left and it is
\* None again: the deletion of the third point has reset it.
C1_Witness ==
    /\ stage = 2
    /\ image_path # None
    /\ Len(control_points) = 2
    /\ Complete(control_points) = control_points
    /\ transform = None

\* A call of _finish_polygon from the Enter key or from the callback of the
\* finish button; more is the answer to "add another polygon to this group?".
FinishCall(more) ==
    \E answer \in RingNames, k \in 0..RingMaxPending :
        \/ finish_polygon_callback(answer, more, k)
        \/ on_key_press("Enter", TRUE, answer, more, k)

\* The click on the second corner of a rectangle.
SecondCorner(px, more) ==
    /\ ~ignore_next_click /\ ~pan_mode /\ stage = 2 /\ drawing
    /\ mode_var = "rectangle" /\ rect_start # None
    /\ \E answer \in RingNames, k \in 0..RingMaxPending :
            on_click(px, 1, answer, more, k)

\* A step that adds a ring to the group in progress or a polygon to the
\* collection.
PromotesRing ==
    \/ Len(current_group_pixels') > Len(current_group_pixels)
    \/ Len(polygons') > Len(polygons)

\* C2: the ids assigned on one loaded image start at 1 and strictly increase,
\* the committed polygons carry ids assigned in that order, and
\* delete_last_polygon never lowers next_poly_id.
C2_IdsIncreasingNeverReused ==
    /\ [](/\ assigned_ids # <<>> => assigned_ids[1] = 1
          /\ \A i, j \in 1..Len(assigned_ids) :
                i < j => assigned_ids[i] < assigned_ids[j]
          /\ \A i \in 1..Len(assigned_ids) : assigned_ids[i] < next_poly_id
          /\ \A i \in 1..Len(polygons) :
                \E j \in 1..Len(assigned_ids) : polygons[i].id = assigned_ids[j]
          /\ \A i, j \in 1..Len(polygons) :
                i < j => polygons[i].id < polygons[j].id)
    /\ [][delete_last_polygon => next_poly_id' >= next_poly_id]_vars

\* Polygons 1 and 3 are committed: polygon 2 was deleted in between and its
\* id was not given to the next polygon.
C2_Witness ==
    /\ Len(polygons) = 2
    /\ polygons[1].id = 1
    /\ polygons[2].id = 3
    /\ assigned_ids = <<1, 2, 3>>

C4_TooFewRejected ==
    [][drawing /\ (FinishCall(TRUE) \/ FinishCall(FALSE)) =>
          /\ Len(current_poly_pixels) \in {1, 2} =>
                UNCHANGED <<current_poly_pixels, current_group_pixels,
                            current_group_name, polygons, next_poly_id, drawing>>
          /\ Len(current_poly_pixels) = 3 =>
                /\ PromotesRing
                /\ current_poly_pixels' = <<>>]_vars

\* The finish button was pressed on 1 or 2 vertices and its callback has run:
\* the press still shields the next click, no callback is waiting, and the
\* vertices are still being drawn.
C4_Witness ==
    /\ ignore_next_click
    /\ pending = 0
    /\ drawing
    /\ Len(current_poly_pixels) \in {1, 2}
    /\ Len(current_group_pixels) = 1

\* The Escape key.
Escape ==
    \E answer \in RingNames, more \in BOOLEAN, k \in 0..RingMaxPending :
        on_key_press("escape", TRUE, answer, more, k)

\* C5 as stated: after Escape while drawing in stage 2 the accumulator, the
\* rings of the group in progress and the group name are empty.
C5_EscapeDiscardsGroup ==
    [][Escape /\ stage = 2 /\ drawing =>
          /\ current_poly_pixels' = <<>>
          /\ current_group_pixels' = <<>>
          /\ current_group_name' = None]_vars

\* A step that appends one polygon to the collection.
Commits ==
    /\ Len(polygons') = Len(polygons) + 1
    /\ SubSeq(polygons', 1, Len(polygons)) = polygons

\* C6 as stated, for rings closed and committed while a transform is held:
\* the world vertices of every ring of a polygon, when it is committed, are
\* pixel_to_world of its pixel vertices under the transform held when that
\* ring was closed (group_transforms records it for the rings closed before
\* the last one).
C6_WorldUnderTransformAtClosure ==
    [][/\ Commits
       /\ transform # None
       /\ \A r \in 1..Len(group_transforms) : group_transforms[r] # None
       => LET poly == polygons'[Len(polygons')]
          IN  \A r \in 1..Len(group_transforms) :
                 WorldRings(poly)[r]
                    = MapRing(group_transforms[r], PixelRings(poly)[r])]_vars

\* A step of _finish_polygon: the Enter key or a click.
Digitizes ==
    \E px \in EditClicks, more \in BOOLEAN :
        \/ on_key_press("Enter", TRUE, "", more, 0)
        \/ on_click(px, 1, "", more, 0)

\* C7: a step leaves the committed polygons as they are, or it is a step of
\* _finish_polygon that appends one polygon, or delete_last_polygon removing
\* the last one, or load_image emptying the collection.
C7_CommittedPolygonsUnchanged ==
    [][\/ polygons' = polygons
       \/ Digitizes /\ Commits
       \/ /\ delete_last_polygon
          /\ polygons' = SubSeq(polygons, 1, Len(polygons) - 1)
       \/ (\E path \in ImagePaths : load_image(path)) /\ polygons' = <<>>]_vars

\* A polygon committed under one transform is still where it was after the
\* point at (0,0) was surveyed again and the transform computed anew.
C7_Witness ==
    /\ Len(polygons) = 1
    /\ ~polygons[1].grouped
    /\ transform # None
    /\ control_points # <<>>
    /\ control_points[1].x = <<110>>
    /\ polygons[1].world_points[1] = <<RInt(10), RInt(20)>>
    /\ pixel_to_world(transform, polygons[1].pixel_points[1])
          # polygons[1].world_points[1]

\* What C8 says of a step that commits the rings of the group and ring.
CommitsGroupWith(ring) ==
    /\ Commits
    /\ polygons'[Len(polygons')].id = next_poly_id
    /\ next_poly_id' = next_poly_id + 1
    /\ PixelRings(polygons'[Len(polygons')]) = Append(current_group_pixels, ring)
    /\ current_poly_pixels' = <<>>
    /\ current_group_pixels' = <<>>
    /\ current_group_name' = None
    /\ drawing' = FALSE
    /\ rect_start' = None

C9_DeleteLastIsPop ==
    [][delete_last_polygon =>
          IF polygons = <<>>
          THEN UNCHANGED fields
          ELSE /\ polygons' = SubSeq(polygons, 1, Len(polygons) - 1)
               /\ next_poly_id' = next_poly_id]_vars

\* Two polygons were committed and the second deleted: the first is left and
\* next_poly_id is still 3.
C9_Witness ==
    /\ Len(polygons) = 1
    /\ polygons[1].id = 1
    /\ next_poly_id = 3
    /\ assigned_ids = <<1, 2>>

\* C10: the shapefile written has one record per committed polygon, in
\* commit order, with ID the polygon's id and NAME its name; the parts of a
\* record are the world rings of the polygon in ring order, each as stored or
\* with its first vertex appended, and each ends with its first vertex.
C10_ShapefileRecords ==
    written.shp # None =>
        /\ Len(written.shp) = Len(polygons)
        /\ \A i \in 1..Len(polygons) :
              LET rec == written.shp[i]
                  rings == WorldRings(polygons[i])
              IN  /\ rec.ID = polygons[i].id
                  /\ rec.NAME = polygons[i].name
                  /\ Len(rec.parts) = Len(rings)
                  /\ \A r \in 1..Len(rings) :
                        /\ \/ rec.parts[r] = rings[r]
                           \/ rec.parts[r] = Append(rings[r], rings[r][1])
                        /\ rec.parts[r][1] = rec.parts[r][Len(rec.parts[r])]

\* A shapefile of two polygons, the first one a group of two rings.
C10_Witness ==
    /\ written.shp # None
    /\ Len(written.shp) = 2
    /\ polygons[1].grouped
    /\ Len(written.shp[1].parts) = 2
    /\ ~polygons[2].grouped


(***************************************************************************)
(* The vertex table.                                                       *)
(***************************************************************************)
\* The committed polygon a row of the table names (ids are unique, C2).
RowPolygons(row) == {i \in 1..Len(polygons) : polygons[i].id = row.poly_id}

\* The vertex of polygon i that the row's vertex_index names, if any.
RowNamesVertex(row, i) ==
    LET poly == polygons[i]
        vi == row.vertex_index
    IN  /\ row.name = poly.name
        /\ IF poly.grouped
           THEN /\ vi.part # None
                /\ vi.part[1] \in 0..(Len(poly.world_points) - 1)
                /\ vi.v \in 0..(Len(poly.world_points[vi.part[1] + 1]) - 1)
                /\ <<row.x, row.y>> = poly.world_points[vi.part[1] + 1][vi.v + 1]
           ELSE /\ vi.part = None
                /\ vi.v \in 0..(Len(poly.world_points) - 1)
                /\ <<row.x, row.y>> = poly.world_points[vi.v + 1]

\* C11 as stated: the header is poly_id, name, ring_index, vertex_index, x, y,
\* every row has these six fields, ring_index is 0 for a polygon of one ring
\* and the ring's position otherwise, and vertex_index is an integer.
C11_SixFieldsWithRingIndex ==
    written.csv # None =>
        /\ written.csv.header =
              <<"poly_id", "name", "ring_index", "vertex_index", "x", "y">>
        /\ \A k \in 1..Len(written.csv.rows) :
              LET row == written.csv.rows[k]
              IN  /\ DOMAIN row =
                        {"poly_id", "name", "ring_index", "vertex_index", "x", "y"}
                  /\ row.ring_index \in Nat
                  /\ row.vertex_index \in Nat

\* C11 (amended): the header is poly_id, name, vertex_index, x, y and every row
\* has these five fields; for a polygon committed as one ring vertex_index is
\* the vertex's integer position in the ring, and for a polygon committed as a
\* group it is the text part<r>_v<i>, r the ring's position in the polygon and
\* i the vertex's position in that ring; x and y are that vertex's world
\* coordinates.
C11_FiveFieldsWithPartText ==
    written.csv # None =>
        /\ written.csv.header = <<"poly_id", "name", "vertex_index", "x", "y">>
        /\ \A k \in 1..Len(written.csv.rows) :
              LET row == written.csv.rows[k]
              IN  /\ DOMAIN row = {"poly_id", "name", "vertex_index", "x", "y"}
                  /\ \E i \in RowPolygons(row) : RowNamesVertex(row, i)

\* A table with rows of a group and rows of a polygon of one ring.
C11_Witness ==
    /\ written.csv # None
    /\ \E k \in 1..Len(written.csv.rows) :
          written.csv.rows[k].vertex_index.part = <<1>>
    /\ \E k \in 1..Len(written.csv.rows) :
          /\ written.csv.rows[k].vertex_index.part = None
          /\ written.csv.rows[k].vertex_index.v = 2

\* Where a row stands: polygon position, ring position, vertex position.
RowKey(row) ==
    <<CHOOSE i \in RowPolygons(row) : TRUE,
      IF row.vertex_index.part = None THEN 0 ELSE row.vertex_index.part[1],
      row.vertex_index.v>>

KeyBefore(a, b) ==
    \/ a[1] < b[1]
    \/ a[1] = b[1] /\ a[2] < b[2]
    \/ a[1] = b[1] /\ a[2] = b[2] /\ a[3] < b[3]

\* Every vertex of every committed polygon, as a key.
AllVertexKeys ==
    UNION {IF polygons[i].grouped
           THEN UNION {{<<i, r - 1, v - 1>> :
                           v \in 1..Len(polygons[i].world_points[r])} :
                       r \in 1..Len(polygons[i].world_points)}
           ELSE {<<i, 0, v - 1>> : v \in 1..Len(polygons[i].world_points)} :
           i \in 1..Len(polygons)}

\* C12: the rows of an exported table stand in polygon commit order, then ring
\* order, then vertex order, and they are the vertices of the whole current
\* collection, each exactly once.
C12_RowsInCommitRingVertexOrder ==
    written.csv # None =>
        LET rows == written.csv.rows
        IN  /\ \A k \in 1..Len(rows) : RowPolygons(rows[k]) # {}
            /\ \A k \in 1..(Len(rows) - 1) :
                  KeyBefore(RowKey(rows[k]), RowKey(rows[k + 1]))
            /\ {RowKey(rows[k]) : k \in 1..Len(rows)} = AllVertexKeys

\* A table of two polygons, the first of them a group of two rings.
C12_Witness ==
    /\ written.csv # None
    /\ Len(polygons) = 2
    /\ polygons[1].grouped /\ Len(polygons[1].world_points) = 2
    /\ Len(written.csv.rows) > 6


(***************************************************************************)
(* The export without pyshp or without polygons, and the world file.       *)
(***************************************************************************)
\* What the handlers keep besides the files they write.
session == <<image_path, control_points, transform, stage, drawing, mode_var,
             rect_start, current_poly_pixels, current_group_pixels,
             current_group_name, polygons, next_poly_id, pan_mode,
             ignore_next_click, btn_to_polys, btn_new_poly, btn_finish_poly,
             btn_undo_poly, pending>>

\* C13: without pyshp an export of a non-empty collection to a chosen path
\* still writes the vertex table.
C13_TableWrittenWithoutPyshp ==
    [][(/\ export_polygons("out.shp") /\ op' = "export_polygons"
        /\ ~shapefile /\ polygons # <<>>)
       => written'.csv # None]_vars

\* C14: an export with no committed polygon writes neither the shapefile nor
\* the vertex table and changes nothing of the session, whatever the dialog
\* would have answered and with or without pyshp.
C14_EmptyExportWritesNothing ==
    [][(op' = "export_polygons" /\ polygons = <<>>)
       => (written'.shp = None /\ written'.csv = None /\ UNCHANGED session)]_vars

\* An export in stage 2 after the only polygon was deleted.
C14_Witness ==
    /\ op = "export_polygons"
    /\ polygons = <<>> /\ next_poly_id = 2 /\ stage = 2
    /\ written = NoFiles

\* C15: a written world file has exactly the six lines A, D, B, E, C, F of
\* the transform stored as [A, B, C, D, E, F]; for A = 1, B = 0, C = 100,
\* D = 0, E = -1, F = 200 the lines are 1, 0, 0, -1, 100, 200.
C15_WorldFileLinesADBECF ==
    written.pgw # None =>
        /\ Len(written.pgw) = 6 /\ Len(transform) = 6
        /\ written.pgw[1] = transform[1]
        /\ written.pgw[2] = transform[4]
        /\ written.pgw[3] = transform[2]
        /\ written.pgw[4] = transform[5]
        /\ written.pgw[5] = transform[3]
        /\ written.pgw[6] = transform[6]
        /\ (transform = <<<<1, 1>>, <<0, 1>>, <<100, 1>>,
                          <<0, 1>>, <<-1, 1>>, <<200, 1>>>>
              => written.pgw = <<<<1, 1>>, <<0, 1>>, <<0, 1>>,
                                 <<-1, 1>>, <<100, 1>>, <<200, 1>>>>)

\* The world file of the example transform.
C15_Witness ==
    /\ op = "save_world_file"
    /\ transform = <<<<1, 1>>, <<0, 1>>, <<100, 1>>,
                     <<0, 1>>, <<-1, 1>>, <<200, 1>>>>
    /\ written.pgw = <<<<1, 1>>, <<0, 1>>, <<0, 1>>,
                       <<-1, 1>>, <<100, 1>>, <<200, 1>>>>

\* C16: save_world_file writes nothing when the transform is absent; a
\* transform is never present without an image path, and with the transform
\* present and a path chosen in the dialog the file is written.
C16_WorldFileNeedsOnlyTransform ==
    [][/\ transform' # None => image_path' # None
       /\ (op' = "save_world_file" /\ transform = None) => written'.pgw = None
       /\ (/\ save_world_file("out.pgw") /\ op' = "save_world_file"
           /\ transform # None) => written'.pgw # None]_vars

\* The world file written in stage 2, with polygons committed.
C16_Witness ==
    /\ op = "save_world_file"
    /\ written.pgw # None
    /\ stage = 2 /\ polygons # <<>>


(***************************************************************************)
(* The import of control point coordinates.                                *)
(***************************************************************************)
\* An import that reads the table (the dialog answered) with points present.
Imports(table) ==
    /\ op' = "import_control_csv"
    /\ table # None
    /\ control_points # <<>>
    /\ import_control_csv(table)

IsPositional(table) ==
    {"x", "y"} \subseteq table[1].header /\ ~({"col", "row"} \subseteq table[1].header)

IsNearest(table) == {"col", "row", "x", "y"} \subseteq table[1].header

\* float() accepts every numeric field the mode reads.
ParsesXY(r) == r.x # None /\ r.y # None

ParsesAll(r) == r.col # None /\ r.row # None /\ r.x # None /\ r.y # None

\* C17: in positional mode a table whose row count differs from the number
\* of control points changes no control point; with equal counts the i-th
\* row's (x, y) is the i-th point's world coordinate afterwards, for every i
\* whose row float() accepts.
C17_PositionalByIndexOrNothing ==
    [][\A table \in PositionalTables :
          Imports(table) =>
              LET rows == table[1].rows
              IN  IF Len(rows) # Len(control_points)
                  THEN control_points' = control_points
                  ELSE \A i \in 1..Len(rows) :
                          ParsesXY(rows[i]) =>
                              /\ control_points'[i].x = rows[i].x
                              /\ control_points'[i].y = rows[i].y]_vars

\* Three points after the table (7, 8), (9, 8), (7, 8).
C17_Witness ==
    /\ op = "import_control_csv"
    /\ Len(control_points) = 3
    /\ control_points[1].x = <<7>> /\ control_points[1].y = <<8>>
    /\ control_points[2].x = <<9>> /\ control_points[2].y = <<8>>
    /\ control_points[3].x = <<7>> /\ control_points[3].y = <<8>>

\* Row k is applied to point j: j is at the least squared pixel distance from
\* the row's (col, row) and no earlier point is as near.
Selects(rows, k, j) ==
    /\ ParsesAll(rows[k])
    /\ \A m \in 1..Len(control_points) :
          Dist2(control_points[j], rows[k].col[1], rows[k].row[1])
              <= Dist2(control_points[m], rows[k].col[1], rows[k].row[1])
    /\ \A m \in 1..(j - 1) :
          Dist2(control_points[j], rows[k].col[1], rows[k].row[1])
              < Dist2(control_points[m], rows[k].col[1], rows[k].row[1])

\* C18: in nearest-pixel mode every point selected by some parsable row ends
\* with the (x, y) of the last row that selects it, and every other point
\* keeps its world coordinate.
C18_NearestFirstOnTiesLastRowWins ==
    [][\A table \in NearestTables :
          Imports(table) =>
              LET rows == table[1].rows
              IN  \A j \in 1..Len(control_points) :
                      LET hits == {k \in 1..Len(rows) : Selects(rows, k, j)}
                      IN  IF hits = {}
                          THEN control_points'[j] = control_points[j]
                          ELSE LET last == CHOOSE k \in hits :
                                               \A h \in hits : h <= k
                               IN  control_points'[j] =
                                       [control_points[j] EXCEPT
                                            !.x = rows[last].x,
                                            !.y = rows[last].y]]_vars

\* The rows (1,1) -> (9, 8) and (1,1) -> (7, 8): the point at (1,0), the first
\* of the two nearest, holds (7, 8) and the point at (0,1) is as surveyed.
C18_Witness ==
    /\ op = "import_control_csv"
    /\ Len(control_points) = 3
    /\ control_points[2] = [col |-> 1, row |-> 0, x |-> <<7>>, y |-> <<8>>]
    /\ control_points[3] = [col |-> 0, row |-> 1, x |-> <<10>>, y |-> <<18>>]

\* C19: a row with an unparsable numeric field changes neither x nor y of any
\* point, in both modes, so that every point keeps a world coordinate that is
\* fully set or fully unset; the other rows are applied.
C19_UnparsableRowSkippedWhole ==
    [][\A table \in PositionalTables \cup NearestTables :
          Imports(table) =>
              LET rows == table[1].rows
              IN  /\ (IsPositional(table) /\ Len(rows) = Len(control_points)) =>
                        \A i \in 1..Len(rows) :
                            IF ParsesXY(rows[i])
                            THEN /\ control_points'[i].x = rows[i].x
                                 /\ control_points'[i].y = rows[i].y
                            ELSE control_points'[i] = control_points[i]
                  /\ IsNearest(table) =>
                        control_points' =
                            ImportNearest(control_points,
                                          SelectSeq(rows, ParsesAll))
                  /\ \A i \in 1..Len(control_points) :
                        (control_points[i].x = None <=> control_points[i].y = None)
                            => (control_points'[i].x = None
                                    <=> control_points'[i].y = None)]_vars

\* C20: an import, applied or refused, leaves the transform, the number and
\* order of the control points, their pixel coordinates, the stage and the
\* committed polygons as they were.
C20_ImportChangesWorldOnly ==
    [][op' = "import_control_csv" =>
          /\ transform' = transform
          /\ stage' = stage
          /\ polygons' = polygons
          /\ Len(control_points') = Len(control_points)
          /\ \A i \in 1..Len(control_points) :
                /\ control_points'[i].col = control_points[i].col
                /\ control_points'[i].row = control_points[i].row]_vars

\* An import in stage 2, a polygon committed, that moved the point at (1,0).
C20_Witness ==
    /\ op = "import_control_csv"
    /\ transform # None /\ stage = 2 /\ polygons # <<>>
    /\ Len(control_points) = 3
    /\ control_points[2] = [col |-> 1, row |-> 0, x |-> <<9>>, y |-> <<8>>]


(***************************************************************************)
(* The fit.                                                                *)
(***************************************************************************)
\* The pixel positions of three points do not lie on one line.
NonCollinear(c) ==
    (c[2].col - c[1].col) * (c[3].row - c[1].row)
        # (c[3].col - c[1].col) * (c[2].row - c[1].row)

\* The transform tf maps the pixel of every point of c to its world
\* coordinate.
FitsExactly(tf, c) ==
    \A k \in 1..Len(c) :
        pixel_to_world(tf, <<c[k].col, c[k].row>>)
            = <<RInt(c[k].x[1]), RInt(c[k].y[1])>>

\* C21: a press of the fit button with fewer than 3 complete points leaves
\* the transform (absent or fitted) and every control point as they were;
\* with 3 or more complete points the transform is a new one, fitted to the
\* complete points of the moment, and the control points are as they were.
C21_FailedFitKeepsState ==
    [][op' = "compute_transform" =>
          /\ control_points' = control_points
          /\ IF Len(Complete(control_points)) < 3
             THEN transform' = transform
             ELSE /\ transform' # None /\ Len(transform') = 6
                  /\ (/\ Len(Complete(control_points)) = 3
                      /\ NonCollinear(Complete(control_points)))
                        => FitsExactly(transform', Complete(control_points))]_vars

\* The fit refused with a transform fitted earlier still in place.
C21_Witness ==
    /\ op = "compute_transform"
    /\ transform # None
    /\ Len(Complete(control_points)) < 3

\* The points (0,0) -> (100,200), (10,0) -> (110,200), (0,10) -> (100,190).
ExamplePoints ==
    <<[col |-> 0, row |-> 0, x |-> <<100>>, y |-> <<200>>],
      [col |-> 10, row |-> 0, x |-> <<110>>, y |-> <<200>>],
      [col |-> 0, row |-> 10, x |-> <<100>>, y |-> <<190>>]>>

\* C22: after a fit on exactly 3 complete points with non-collinear pixels
\* the transform maps each of the three pixels to its world coordinate; on
\* the example points it is A = 1, B = 0, C = 100, D = 0, E = -1, F = 200;
\* incomplete points in the store make no difference.
C22_ThreePointsFitExactly ==
    (/\ op = "compute_transform"
     /\ Len(Complete(control_points)) = 3
     /\ NonCollinear(Complete(control_points)))
        => /\ transform # None
           /\ FitsExactly(transform, Complete(control_points))
           /\ Complete(control_points) = ExamplePoints
                 => transform = <<<<1, 1>>, <<0, 1>>, <<100, 1>>,
                                  <<0, 1>>, <<-1, 1>>, <<200, 1>>>>

\* The example fitted with an incomplete fourth point in the store.
C22_Witness ==
    /\ op = "compute_transform"
    /\ Len(control_points) = 4
    /\ Complete(control_points) = ExamplePoints
    /\ transform = <<<<1, 1>>, <<0, 1>>, <<100, 1>>,
                     <<0, 1>>, <<-1, 1>>, <<200, 1>>>>

\* The linear part [[A, B], [D, E]] has no inverse.
Singular(tf) == RAdd(RMul(tf[1], tf[5]), RNeg(RMul(tf[2], tf[4])))[1] = 0

\* C23: with a transform whose linear part is singular world_to_pixel gives
\* its caller something else than it gives with no transform computed.
C23_SingularDistinctFromAbsent ==
    (transform # None /\ Singular(transform))
        => \A w \in {<<100, 200>>, <<0, 0>>} :
              world_to_pixel(transform, w) # world_to_pixel(None, w)

\* C24: no step changes the (col, row) of a control point that stays in the
\* store; assign_coord, import_control_csv, compute_transform and deletions
\* change world coordinates or the length of the store only.
C24_PixelCoordinatesImmutable ==
    [][\A i \in 1..Len(control_points) :
          i <= Len(control_points') =>
              /\ control_points'[i].col = control_points[i].col
              /\ control_points'[i].row = control_points[i].row]_vars

\* The first point surveyed, imported over and fitted, still at (0,0); the
\* second typed, still at (10,0).
C24_Witness ==
    /\ op = "compute_transform" /\ transform # None
    /\ control_points[1] = [col |-> 0, row |-> 0, x |-> <<110>>, y |-> <<20>>]
    /\ control_points[2] = [col |-> 10, row |-> 0, x |-> <<30>>, y |-> <<20>>]


(***************************************************************************)
(* Commits without a transform, clicks and loads while drawing, repeated   *)
(* finish presses, pan mode.                                               *)
(***************************************************************************)
\* C26: no committed polygon holds the NaN pair that pixel_to_world returns
\* for an absent transform: every world vertex in polygons is a pair of
\* numbers.
C26_NoPolygonWithoutTransform ==
    \A i \in 1..Len(polygons) :
        \A r \in 1..Len(WorldRings(polygons[i])) :
            \A v \in 1..Len(WorldRings(polygons[i])[r]) :
                /\ WorldRings(polygons[i])[r][v][1] # NaN
                /\ WorldRings(polygons[i])[r][v][2] # NaN


\* The pixels a click may name.
ClickPixels == {<<0, 0>>, <<1, 0>>, <<0, 1>>, <<1, 1>>}

\* C25: in stage 2 with drawing active, freehand mode and pan mode off, a
\* left click at px inside the image makes px the last element of
\* current_poly_pixels and leaves the elements before it as they were.
C25_ClickAppendsVertex ==
    [][\A px \in ClickPixels :
          (/\ stage = 2 /\ drawing /\ mode_var = "freehand" /\ ~pan_mode
           /\ on_click(px, 1, "", FALSE, 0))
              => current_poly_pixels' = Append(current_poly_pixels, px)]_vars

\* C27: the click that follows a load of an image, with pan mode off and no
\* click to be ignored, appends one incomplete control point at the clicked
\* pixel.
C27_ClickAfterLoadAddsPoint ==
    [][\A px \in ClickPixels :
          (/\ op = "load_image" /\ ~pan_mode /\ ~ignore_next_click
           /\ on_click(px, 1, "", FALSE, 0))
              => control_points' =
                     Append(control_points, ControlPoint(px[1], px[2]))]_vars

\* C28: a load of an image leaves no control point, no transform, no
\* committed polygon, next_poly_id = 1 and no drawing in progress: the
\* accumulator and the group are empty, the group has no name and drawing
\* is False.
C28_LoadStartsClean ==
    [][op' = "load_image" =>
          /\ control_points' = <<>> /\ transform' = None
          /\ polygons' = <<>> /\ next_poly_id' = 1
          /\ current_poly_pixels' = <<>> /\ current_group_pixels' = <<>>
          /\ current_group_name' = None /\ ~drawing']_vars

\* C29: the callbacks of the finish button that run in one step (one, and
\* those that run while it waits in a dialog) either change nothing of the
\* drawing or close the accumulated vertices into exactly one ring, which
\* joins the group or is committed with it in one polygon, and empty the
\* accumulator, so that a later callback finds nothing to close.
C29_FinishedOncePerRing ==
    [][pending' < pending =>
          \/ UNCHANGED <<drawing, current_poly_pixels, current_group_pixels,
                         current_group_name, polygons, next_poly_id>>
          \/ /\ drawing /\ Len(current_poly_pixels) >= 3
             /\ current_poly_pixels' = <<>>
             /\ \/ /\ polygons' = polygons
                   /\ current_group_pixels' =
                         Append(current_group_pixels,
                                CloseRing(current_poly_pixels))
                \/ /\ Len(polygons') = Len(polygons) + 1
                   /\ SubSeq(polygons', 1, Len(polygons)) = polygons
                   /\ PixelRings(polygons'[Len(polygons')]) =
                         Append(current_group_pixels,
                                CloseRing(current_poly_pixels))
                   /\ current_group_pixels' = <<>>]_vars

\* The button pressed twice on one ring: the first callback has committed
\* the polygon and the second still waits.
C29_Witness ==
    /\ pending = 1
    /\ Len(polygons) = 1
    /\ ~drawing /\ current_poly_pixels = <<>> /\ current_group_pixels = <<>>

\* C30: with pan mode on a click with any button changes no control point,
\* no vertex, no rectangle corner and no polygon, and start_polygon does not
\* begin drawing.
C30_PanModeClicksChangeNothing ==
    [][/\ \A px \in ClickPixels, button \in Buttons :
             (pan_mode /\ on_click(px, button, "", FALSE, 0))
                 => UNCHANGED <<control_points, current_poly_pixels,
                                rect_start, polygons>>
       /\ (pan_mode /\ start_polygon) => UNCHANGED drawing]_vars

=============================================================================
